---- MODULE Spec2Model ----
(***************************************************************************)
(* Model of the KUNKIN programmable DC load controller.                    *)
(*                                                                         *)
(*   src/kunkin.py       KunkinDCLoad: the register-protocol driver        *)
(*   src/cli_control.py  the interactive menu, the monitoring thread and   *)
(*                       the emergency watchdog                            *)
(*                                                                         *)
(* Bytes are integers 0..255 and frames are sequences of bytes.  A float   *)
(* argument of a setter is the exact decimal n / InputDen, carried as the  *)
(* integer n; binary floating-point rounding error is not modelled.        *)
(***************************************************************************)
EXTENDS Integers, Sequences, FiniteSets, TLC

VARIABLES
    address,      \* KunkinDCLoad.address
    rx,           \* self.ser: bytes waiting in the input buffer
    pending,      \* bytes the device has emitted that have not arrived yet
    pc,           \* per thread: position inside the driver call
    call,         \* per thread: the driver method called and its argument
    cmd,          \* per thread: the frame built by the call (<<>>: none)
    cleared,      \* per thread: the call has run reset_input_buffer
    sent,         \* per thread: the frames the call has written
    response,     \* per thread: send_command's local `response`
    result,       \* per thread: the value returned or the exception raised
    platform,     \* cli: sys.platform is Windows ("win") or not ("posix")
    mpc,          \* cli: position of the main thread in main()
    stop_event,   \* cli: threading.Event stop_event
    monitor,      \* cli: position of the monitor_load thread ("none": never started)
    stdin,        \* cli: keys pressed that the program has not read yet
    qPressed,     \* cli: the user has pressed 'q'
    ps_off,       \* cli: ps.output_off() calls made
    nreq,         \* cli: load calls made from the menu and by the monitor
    buf,          \* codec: the byte sequence under test
    stage,        \* codec: what has been done to buf
    crcOut,       \* codec: the last calculate_crc result
    dropped,      \* channel history: the bytes the last reset_input_buffer discarded
    arrived,      \* channel history: the bytes that reached the input buffer since then
    early         \* channel history: the input buffer when the frame was written

drvVars == <<address, rx, pending, pc, call, cmd, cleared, sent, response, result>>
cliVars == <<platform, mpc, stop_event, monitor, stdin, qPressed, ps_off, nreq>>
codecVars == <<buf, stage, crcOut>>
chanVars == <<dropped, arrived, early>>
vars == <<drvVars, cliVars, codecVars, chanVars>>

Threads == {"main", "monitor"}

(***************************************************************************)
(* Bounds of the model.                                                    *)
(***************************************************************************)
\* The device hands its reply to the input buffer in bursts of at most
\* Burst bytes, or all at once.
Burst == 5
\* A device may append up to MaxTrail extra bytes to an echo.
MaxTrail == 1
\* Length of the free byte sequences of the codec specification.
MaxLen == 3
\* Keys (Enter included) the user may be ahead of the program.
MaxKeys == 2
\* Load calls the menu and the monitor thread make in one run of the CLI (the
\* shutdown calls come on top).
MaxRequests == 2
\* Bytes of earlier replies that may still be on their way when the next
\* request starts, under the channel specification.
MaxLate == 5

\* Setter arguments are multiples of 1/InputDen of the unit.
InputDen == 10000

(***************************************************************************)
(* Register addresses and load modes (class constants of KunkinDCLoad).    *)
(***************************************************************************)
REG_LOAD_ONOFF == 270
REG_LOAD_MODE == 272
REG_CV_SETTING == 274
REG_CC_SETTING == 278
REG_CR_SETTING == 282
REG_CW_SETTING == 286
MODE_CV == 0
MODE_CC == 1
MODE_CR == 2
MODE_CW == 3

(***************************************************************************)
(* Integer helpers: Python's ^ on non-negative integers, int() of a        *)
(* quotient (truncation toward zero), slices, int.from_bytes, struct.pack. *)
(***************************************************************************)
RECURSIVE Xor(_, _)
Xor(a, b) ==
    IF a = 0 THEN b
    ELSE IF b = 0 THEN a
    ELSE (((a % 2) + (b % 2)) % 2) + 2 * Xor(a \div 2, b \div 2)

Min(a, b) == IF a < b THEN a ELSE b

\* int(n / d) for d > 0: Python's int() drops the fraction, toward zero.
TruncDiv(n, d) == IF n >= 0 THEN n \div d ELSE -((-n) \div d)

\* Python s[a:b] with 0 <= a, on a sequence (indices clipped to the length).
PySlice(s, a, b) == SubSeq(s, a + 1, Min(b, Len(s)))

RECURSIVE FromBytesLittle(_)
FromBytesLittle(bs) ==
    IF bs = <<>> THEN 0 ELSE Head(bs) + 256 * FromBytesLittle(Tail(bs))

RECURSIVE FromBytesBig(_)
\* int.from_bytes(bs, byteorder="big"); 0 for the empty sequence.
FromBytesBig(bs) ==
    IF bs = <<>> THEN 0
    ELSE 256 * FromBytesBig(SubSeq(bs, 1, Len(bs) - 1)) + bs[Len(bs)]

PackU32Little(v) ==
    <<v % 256, (v \div 256) % 256, (v \div 65536) % 256, (v \div 16777216) % 256>>
\* struct.pack(">I", v) for 0 <= v < 2^32.
PackU32Big(v) ==
    <<(v \div 16777216) % 256, (v \div 65536) % 256, (v \div 256) % 256, v % 256>>

(***************************************************************************)
(* calculate_crc                                                           *)
(***************************************************************************)
\* x ^ 0xA001 for 0 <= x < 2^15: bits 15, 13 and 0 are flipped.
XorA001(x) ==
    x + 32768
      + (IF (x \div 8192) % 2 = 1 THEN -8192 ELSE 8192)
      + (IF x % 2 = 1 THEN -1 ELSE 1)

\* One pass of the inner loop: if crc & 0x0001 then (crc >> 1) ^ 0xA001
\* else crc >> 1.
CrcShift(crc) == IF crc % 2 = 1 THEN XorA001(crc \div 2) ELSE crc \div 2

RECURSIVE CrcShifts(_, _)
\* `for _ in range(8)`: n passes of the inner loop.  The value of crc is
\* taken once, as c.
CrcShifts(crc, n) ==
    IF n = 0 THEN crc
    ELSE CHOOSE r \in {CrcShifts(CrcShift(c), n - 1) : c \in {crc}} : TRUE

RECURSIVE CrcFold(_, _)
\* `for byte in data`: crc ^= byte, then the eight inner passes.  The values
\* of crc and data are taken once, as c and d.
CrcFold(crc, data) ==
    IF data = <<>> THEN crc
    ELSE CHOOSE r \in {CrcFold(CrcShifts(Xor(c, Head(d)), 8), Tail(d)) :
                          c \in {crc}, d \in {data}} : TRUE

\* struct.pack("<H", crc): low byte first.
PackCrcHighFirst(crc) == <<crc \div 256, crc % 256>>
PackCrc(crc) == <<crc % 256, crc \div 256>>

CrcSeedZero(data) == PackCrc(CrcFold(0, data))
calculate_crc(data) == PackCrc(CrcFold(65535, data))

(***************************************************************************)
(* Frame builders of write_single_register and read_common_registers.      *)
(***************************************************************************)
WriteCmd(addr, register, data_bytes) ==
    LET body == <<addr, 6, (register \div 256) % 256, register % 256, 0, 1, 4>>
                    \o data_bytes
    IN  body \o calculate_crc(body)

ReadCmd(addr) ==
    LET body == <<addr, 3, 3, 0, 0, 0>>
    IN  body \o calculate_crc(body)

(***************************************************************************)
(* Values returned or raised by the driver's methods.                      *)
(***************************************************************************)
NoResult == [kind |-> "running"]
RetBool(b) == [kind |-> "bool", ok |-> b]
RetNone == [kind |-> "None"]
Raised(exc) == [kind |-> exc]
\* x / 1000.0, kept exact as a fraction.
Div1000(x) == [num |-> x, den |-> 1000]

(***************************************************************************)
(* read_common_registers, from the response on: None, the parsed dict, or  *)
(* the IndexError of data[0] on an empty payload.                          *)
(***************************************************************************)
ParseCommon(addr, resp) ==
    IF Len(resp) < 6 THEN RetNone
    ELSE IF resp[1] = addr /\ resp[2] = 3 THEN
        LET data_len == resp[3]
            data == PySlice(resp, 3, 3 + data_len)
        IN  IF data = <<>> THEN Raised("IndexError")
            ELSE LET status_byte == data[1]
                     voltage_mv == FromBytesBig(PySlice(data, 2, 5))
                     current_ma == FromBytesBig(PySlice(data, 5, 8))
                 IN  [kind |-> "dict",
                      on |-> ((status_byte % 2) = 1),
                      mode |-> (status_byte \div 2) % 4,
                      voltage_mv |-> voltage_mv,
                      voltage_v |-> Div1000(voltage_mv),
                      current_ma |-> current_ma,
                      current_a |-> Div1000(current_ma)]
    ELSE RetNone

\* get_measurements, from read_common_registers' outcome on.
Measurements(data) ==
    IF data.kind = "dict"
    THEN [kind |-> "snapshot", voltage_v |-> data.voltage_v,
          current_a |-> data.current_a, mode |-> data.mode, on |-> data.on]
    ELSE data

\* What the call returns once send_command has returned `resp`.
WriteOutcomePrefix(c, resp) ==
    RetBool(Len(resp) >= Len(c) /\ SubSeq(resp, 1, Len(c)) = c)
\* return response == cmd
WriteOutcome(c, resp) == RetBool(resp = c)
Outcome(op, addr, c, resp) ==
    IF op = "get_measurements" THEN Measurements(ParseCommon(addr, resp))
    ELSE WriteOutcome(c, resp)

(***************************************************************************)
(* Unit conversion and range validation of the setters.                    *)
(***************************************************************************)
\* int(value * scale) for value = n / InputDen.
Encode(n, scale) == TruncDiv(n * scale, InputDen)

RangeOkOpenTop(v, max) == 0 <= v /\ v < max
RangeOkNoFloor(v, max) == v <= max
\* 0 <= v <= max
RangeOk(v, max) == 0 <= v /\ v <= max

\* mode in [MODE_CV, MODE_CC, MODE_CR, MODE_CW]
ModeOk(mode) == mode \in {MODE_CV, MODE_CC, MODE_CR, MODE_CW}

(***************************************************************************)
(* The device: what it may answer to a frame.                              *)
(***************************************************************************)
Zeros(k) == [i \in 1..k |-> 0]

\* An echo, an echo with trailing bytes, silence, a cut echo, an echo with a
\* damaged byte.
WriteReplies(f) ==
    {<<>>, SubSeq(f, 1, Len(f) - 1)}
        \cup {f \o Zeros(k) : k \in 0..MaxTrail}
        \cup {[f EXCEPT ![11] = Xor(f[11], 1)], [f EXCEPT ![1] = Xor(f[1], 128)]}

\* Payloads of the common register bank: status, reserved, 3 bytes of mV,
\* 3 bytes of mA, and one byte more.
PayloadPool ==
    { <<3, 0, 0, 19, 136, 0, 3, 232, 0>>,
      <<251, 255, 0, 19, 136, 0, 3, 232, 7>>,
      <<0, 0, 0, 0, 0, 0, 0, 0, 0>>,
      <<6, 170, 255, 255, 255, 1, 0, 0, 1>>,
      <<4, 1, 1, 0, 0, 255, 255, 255, 2>>,
      <<249, 0, 2, 73, 240, 0, 117, 48, 3>> }
ShortPool == { <<3, 0, 0, 19, 136, 0, 3, 232, 0>>, <<6, 170, 255, 255, 255, 1, 0, 0, 1>> }
\* <<declared byte count, payload bytes present>>
FullLens == { <<8, 8>>, <<9, 9>> }
OddLens == { <<0, 0>>, <<0, 8>>, <<3, 3>>, <<3, 8>>, <<7, 7>>, <<8, 0>>, <<8, 3>>, <<8, 7>>, <<9, 8>> }

ReadReply(a, fc, n, payload) ==
    LET body == <<a, fc, n>> \o payload
    IN  body \o calculate_crc(body)
BadCrc(f) == [f EXCEPT ![Len(f)] = Xor(f[Len(f)], 1)]

ReadReplies(addr) ==
    {<<>>}
        \cup {ReadReply(addr, 3, l[1], SubSeq(p, 1, l[2])) : l \in FullLens, p \in PayloadPool}
        \cup {ReadReply(addr, 3, l[1], SubSeq(p, 1, l[2])) : l \in OddLens, p \in ShortPool}
        \cup {ReadReply(a, fc, 8, SubSeq(p, 1, 8)) :
                a \in {addr, addr + 1}, fc \in {3, 131}, p \in ShortPool}
        \cup {BadCrc(ReadReply(addr, 3, 8, SubSeq(p, 1, 8))) : p \in ShortPool}

\* The device addresses of the model, and the read replies for each.
Addresses == {1, 2}
ReadRepliesAt == [a \in Addresses |-> ReadReplies(a)]

DeviceReplies(f) == IF f[2] = 6 THEN WriteReplies(f) ELSE ReadRepliesAt[f[1]]

(***************************************************************************)
(* The driver's methods, per calling thread t.  A method starts where the  *)
(* thread's previous call has returned or raised.                          *)
(***************************************************************************)
NoCall == [op |-> "none", arg |-> 0]
Callable(t) == pc[t] \in {"idle", "done", "raised"}

BeginNoClear(t, op, arg, c) ==
    /\ Callable(t)
    /\ call' = [call EXCEPT ![t] = [op |-> op, arg |-> arg]]
    /\ cmd' = [cmd EXCEPT ![t] = c]
    /\ cleared' = [cleared EXCEPT ![t] = TRUE]
    /\ pc' = [pc EXCEPT ![t] = "write"]
    /\ sent' = [sent EXCEPT ![t] = <<>>]
    /\ response' = [response EXCEPT ![t] = <<>>]
    /\ result' = [result EXCEPT ![t] = NoResult]
    /\ UNCHANGED <<address, rx, pending>>
\* The method has built frame c and entered send_command, whose first channel
\* step is self.ser.reset_input_buffer().
Begin(t, op, arg, c) ==
    /\ Callable(t)
    /\ call' = [call EXCEPT ![t] = [op |-> op, arg |-> arg]]
    /\ cmd' = [cmd EXCEPT ![t] = c]
    /\ rx' = <<>>
    /\ cleared' = [cleared EXCEPT ![t] = TRUE]
    /\ pc' = [pc EXCEPT ![t] = "write"]
    /\ sent' = [sent EXCEPT ![t] = <<>>]
    /\ response' = [response EXCEPT ![t] = <<>>]
    /\ result' = [result EXCEPT ![t] = NoResult]
    /\ UNCHANGED <<address, pending>>

\* raise ValueError(...) before struct.pack and write_single_register.
Reject(t, op, arg) ==
    /\ Callable(t)
    /\ call' = [call EXCEPT ![t] = [op |-> op, arg |-> arg]]
    /\ cmd' = [cmd EXCEPT ![t] = <<>>]
    /\ pc' = [pc EXCEPT ![t] = "raised"]
    /\ cleared' = [cleared EXCEPT ![t] = FALSE]
    /\ sent' = [sent EXCEPT ![t] = <<>>]
    /\ response' = [response EXCEPT ![t] = <<>>]
    /\ result' = [result EXCEPT ![t] = Raised("ValueError")]
    /\ UNCHANGED <<address, rx, pending>>

set_power_state(t, on) ==
    LET value == IF on = 1 THEN 1 ELSE 0
    IN  Begin(t, "set_power_state", on,
              WriteCmd(address, REG_LOAD_ONOFF, PackU32Big(value)))

set_mode(t, mode) ==
    IF ~ModeOk(mode)
    THEN Reject(t, "set_mode", mode)
    ELSE Begin(t, "set_mode", mode, WriteCmd(address, REG_LOAD_MODE, PackU32Big(mode)))

set_voltage(t, voltage_v) ==
    LET voltage_mv == Encode(voltage_v, 1000)
    IN  IF ~RangeOk(voltage_mv, 150000)
        THEN Reject(t, "set_voltage", voltage_v)
        ELSE Begin(t, "set_voltage", voltage_v,
                   WriteCmd(address, REG_CV_SETTING, PackU32Big(voltage_mv)))

set_current(t, current_a) ==
    LET current_ma == Encode(current_a, 1000)
    IN  IF ~RangeOk(current_ma, 30000)
        THEN Reject(t, "set_current", current_a)
        ELSE Begin(t, "set_current", current_a,
                   WriteCmd(address, REG_CC_SETTING, PackU32Big(current_ma)))

set_resistance(t, resistance_ohm) ==
    LET resistance_mohm == Encode(resistance_ohm, 1000)
    IN  IF ~RangeOk(resistance_mohm, 80000)
        THEN Reject(t, "set_resistance", resistance_ohm)
        ELSE Begin(t, "set_resistance", resistance_ohm,
                   WriteCmd(address, REG_CR_SETTING, PackU32Big(resistance_mohm)))

set_power(t, power_w) ==
    LET power_tenth_w == Encode(power_w, 10)
    IN  IF ~RangeOk(power_tenth_w, 2500)
        THEN Reject(t, "set_power", power_w)
        ELSE Begin(t, "set_power", power_w,
                   WriteCmd(address, REG_CW_SETTING, PackU32Big(power_tenth_w)))

get_measurements(t) == Begin(t, "get_measurements", 0, ReadCmd(address))

(***************************************************************************)
(* send_command after reset_input_buffer, one action per channel step.     *)
(***************************************************************************)
\* self.ser.write(cmd); the device answers the frame with one of `replies`.
SerWrite(t, replies) ==
    /\ pc[t] = "write"
    /\ sent' = [sent EXCEPT ![t] = Append(@, cmd[t])]
    /\ \E r \in replies : pending' = pending \o r
    /\ pc' = [pc EXCEPT ![t] = "settle"]
    /\ UNCHANGED <<address, rx, call, cmd, cleared, response, result>>

ser_write(t) == SerWrite(t, DeviceReplies(cmd[t]))

\* time.sleep(0.1)
settle(t) ==
    /\ pc[t] = "settle"
    /\ pc' = [pc EXCEPT ![t] = "poll"]
    /\ UNCHANGED <<address, rx, pending, call, cmd, cleared, sent, response, result>>

\* while self.ser.in_waiting: response += self.ser.read(self.ser.in_waiting);
\* time.sleep(0.05)
ser_read(t) ==
    /\ pc[t] = "poll"
    /\ Len(rx) > 0
    /\ response' = [response EXCEPT ![t] = @ \o rx]
    /\ rx' = <<>>
    /\ UNCHANGED <<address, pending, pc, call, cmd, cleared, sent, result>>

\* in_waiting is 0: send_command returns and the calling method finishes.
send_return(t) ==
    /\ pc[t] = "poll"
    /\ Len(rx) = 0
    /\ result' = [result EXCEPT ![t] = Outcome(call[t].op, address, cmd[t], response[t])]
    /\ pc' = [pc EXCEPT ![t] = "done"]
    /\ UNCHANGED <<address, rx, pending, call, cmd, cleared, sent, response>>

send_command(t) ==
    \/ ser_write(t)
    \/ settle(t)
    \/ ser_read(t)
    \/ send_return(t)

\* Bytes of the device's reply reach the input buffer, k at a time for some
\* k in `sizes`.
Deliver(sizes) ==
    /\ pending # <<>>
    /\ \E k \in sizes :
          /\ rx' = rx \o SubSeq(pending, 1, k)
          /\ pending' = SubSeq(pending, k + 1, Len(pending))
    /\ UNCHANGED <<address, pc, call, cmd, cleared, sent, response, result>>

DeviceSend == Deliver({Min(Burst, Len(pending)), Len(pending)})

(***************************************************************************)
(* Spec: one caller drives the session with arguments from these sets.     *)
(***************************************************************************)
OnInputs == {0, 1}
ModeInputs == {-1, 0, 1, 2, 3, 4}
VoltInputs == {-10, -6, 0, 50000, 1500000, 1500006, 1500010}
CurrInputs == {-10, 0, 10006, 300000, 300010}
ResInputs == {-10, 0, 12345, 800000, 800010}
PowInputs == {-1000, 0, 500, 2500000, 2500600, 2501000}

DrvInit ==
    /\ rx = <<>>
    /\ pending = <<>>
    /\ pc = [t \in Threads |-> "idle"]
    /\ call = [t \in Threads |-> NoCall]
    /\ cmd = [t \in Threads |-> <<>>]
    /\ cleared = [t \in Threads |-> FALSE]
    /\ sent = [t \in Threads |-> <<>>]
    /\ response = [t \in Threads |-> <<>>]
    /\ result = [t \in Threads |-> NoResult]

CliIdle ==
    /\ platform = "posix"
    /\ mpc = "off"
    /\ stop_event = FALSE
    /\ monitor = "none"
    /\ stdin = <<>>
    /\ qPressed = FALSE
    /\ ps_off = 0
    /\ nreq = 0

CodecIdle ==
    /\ buf = <<>>
    /\ stage = "off"
    /\ crcOut = <<>>

ChanIdle ==
    /\ dropped = <<>>
    /\ arrived = <<>>
    /\ early = <<>>

Init ==
    /\ address \in Addresses
    /\ DrvInit
    /\ CliIdle
    /\ CodecIdle
    /\ ChanIdle

\* The caller's next call; it waits until the device has gone quiet.
Invoke(t) ==
    /\ pending = <<>>
    /\ \/ \E on \in OnInputs : set_power_state(t, on)
       \/ \E mode \in ModeInputs : set_mode(t, mode)
       \/ \E v \in VoltInputs : set_voltage(t, v)
       \/ \E c \in CurrInputs : set_current(t, c)
       \/ \E r \in ResInputs : set_resistance(t, r)
       \/ \E w \in PowInputs : set_power(t, w)
       \/ get_measurements(t)

Next ==
    \/ Invoke("main") /\ UNCHANGED <<cliVars, codecVars, chanVars>>
    \/ send_command("main") /\ UNCHANGED <<cliVars, codecVars, chanVars>>
    \/ DeviceSend /\ UNCHANGED <<cliVars, codecVars, chanVars>>

Spec == Init /\ [][Next]_vars

(***************************************************************************)
(* Claims about the driver, checked under Spec.                            *)
(***************************************************************************)
Setters == {"set_voltage", "set_current", "set_resistance", "set_power"}
Writers == Setters \cup {"set_mode", "set_power_state"}
Started(t) == call[t].op # "none"
Written(t) == pc[t] \in {"settle", "poll", "done"}

\* The scale and the largest encoded value of each quantity, as the claims
\* state them.
ClaimScale(op) == IF op = "set_power" THEN 10 ELSE 1000
ClaimMax(op) ==
    CASE op = "set_voltage" -> 150000
      [] op = "set_current" -> 30000
      [] op = "set_resistance" -> 80000
      [] op = "set_power" -> 2500
Encoded(c) == Encode(c.arg, ClaimScale(c.op))
InClaimRange(c) == 0 <= Encoded(c) /\ Encoded(c) <= ClaimMax(c.op)
ArgRejected(c) ==
    \/ c.op = "set_mode" /\ c.arg \notin {0, 1, 2, 3}
    \/ c.op \in Setters /\ ~InClaimRange(c)

C1_State ==
    \A t \in Threads :
        (Started(t) /\ ArgRejected(call[t])) =>
            /\ pc[t] = "raised"
            /\ result[t] = Raised("ValueError")
            /\ result[t] # RetBool(FALSE)
            /\ cmd[t] = <<>>
            /\ ~cleared[t]
            /\ sent[t] = <<>>
C1_Step ==
    \A t \in Threads :
        (pc'[t] = "raised" /\ (pc[t] # "raised" \/ call'[t] # call[t])) =>
            /\ ArgRejected(call'[t])
            /\ rx' = rx
            /\ pending' = pending
\* C1: a setter given an unsupported mode or an out-of-range encoded value
\* raises ValueError (not the boolean False) with no frame built, the input
\* buffer not cleared and nothing written to the channel.
C1_RejectBeforeIO == [](C1_State) /\ [][C1_Step]_vars
C1_Witness ==
    /\ pc["main"] = "raised"
    /\ call["main"] = [op |-> "set_voltage", arg |-> 1500010]
    /\ rx # <<>>

\* C2: each setter's range is inclusive at both ends: an encoded value inside
\* [0, max] is accepted and exactly one write frame goes out, every encoded
\* value outside it fails with ValueError.
C2_InclusiveRange ==
    \A t \in Threads :
        (Started(t) /\ call[t].op \in Setters) =>
            /\ InClaimRange(call[t]) =>
                  /\ pc[t] # "raised"
                  /\ result[t].kind # "ValueError"
                  /\ Written(t) => (Len(sent[t]) = 1 /\ sent[t][1][2] = 6)
            /\ ~InClaimRange(call[t]) =>
                  /\ pc[t] = "raised"
                  /\ result[t].kind = "ValueError"
C2_Witness ==
    /\ pc["main"] = "done"
    /\ call["main"] = [op |-> "set_voltage", arg |-> 1500000]
    /\ Len(sent["main"]) = 1

SameBytes(a, b) == Len(a) = Len(b) /\ \A i \in 1..Len(a) : a[i] = b[i]

\* C3: a write returns a boolean, never an exception, and it is True exactly
\* when the bytes read back equal the transmitted frame byte for byte.
C3_EchoConfirms ==
    \A t \in Threads :
        (pc[t] = "done" /\ call[t].op \in Writers) =>
            /\ result[t].kind = "bool"
            /\ Len(sent[t]) = 1
            /\ result[t].ok <=> SameBytes(response[t], sent[t][1])
C3_Witness ==
    /\ pc["main"] = "done"
    /\ call["main"].op \in Writers
    /\ result["main"] = RetBool(TRUE)
    /\ response["main"] # <<>>

\* A read reply with the request's address and function code 0x03 whose
\* declared byte count and actual payload are both at least 8 bytes.
ValidReadReply(resp) ==
    /\ Len(resp) >= 3 + 8
    /\ resp[1] = address
    /\ resp[2] = 3
    /\ resp[3] >= 8

\* C4: get_measurements returns a snapshot only for a valid read reply and
\* None for every other reply; it never raises.
C4_OnlyValidReplies ==
    \A t \in Threads :
        (pc[t] = "done" /\ call[t].op = "get_measurements") =>
            /\ result[t].kind \in {"snapshot", "None"}
            /\ result[t].kind = "snapshot" <=> ValidReadReply(response[t])

\* C5: the snapshot of a valid read reply with payload p: on is bit 0 of
\* p[0], mode is bits 1-2 of p[0], the voltage is the big-endian p[2..4] mV
\* and the current the big-endian p[5..7] mA, each over 1000.
C5_Decode ==
    \A t \in Threads :
        (/\ pc[t] = "done"
         /\ call[t].op = "get_measurements"
         /\ ValidReadReply(response[t])) =>
            LET p == [i \in 0..7 |-> response[t][4 + i]]
                r == result[t]
            IN  /\ r.kind = "snapshot"
                /\ r.on = (p[0] % 2 = 1)
                /\ r.mode = (p[0] \div 2) % 4
                /\ r.mode \in 0..3
                /\ r.voltage_v = [num |-> p[2] * 65536 + p[3] * 256 + p[4], den |-> 1000]
                /\ r.current_a = [num |-> p[5] * 65536 + p[6] * 256 + p[7], den |-> 1000]
                /\ (p[0] = 3 /\ <<p[2], p[3], p[4]>> = <<0, 19, 136>>
                             /\ <<p[5], p[6], p[7]>> = <<0, 3, 232>>) =>
                       /\ r.on
                       /\ r.mode = 1
                       /\ r.voltage_v = [num |-> 5000, den |-> 1000]
                       /\ r.current_a = [num |-> 1000, den |-> 1000]
C5_Witness ==
    /\ pc["main"] = "done"
    /\ call["main"].op = "get_measurements"
    /\ Len(response["main"]) >= 11
    /\ SubSeq(response["main"], 3, 11) = <<8, 3, 0, 0, 19, 136, 0, 3, 232>>
    /\ result["main"].kind = "snapshot"

\* The register address bytes of each quantity, as the claim lists them.
ClaimRegister(op) ==
    CASE op = "set_power_state" -> <<1, 14>>
      [] op = "set_mode" -> <<1, 16>>
      [] op = "set_voltage" -> <<1, 18>>
      [] op = "set_current" -> <<1, 22>>
      [] op = "set_resistance" -> <<1, 26>>
      [] op = "set_power" -> <<1, 30>>
ClaimValue(c) == IF c.op \in Setters THEN Encoded(c) ELSE c.arg
BigEndian4(v) == [i \in 1..4 |-> (v \div (256 ^ (4 - i))) % 256]
ClaimFrame(addr, c) ==
    LET body == <<addr, 6>> \o ClaimRegister(c.op) \o <<0, 1, 4>>
                    \o BigEndian4(ClaimValue(c))
    IN  body \o calculate_crc(body)

C6_State ==
    \A t \in Threads :
        (Started(t) /\ call[t].op \in Writers /\ pc[t] # "raised") =>
            /\ Len(cmd[t]) = 13
            /\ cmd[t] = ClaimFrame(address, call[t])
            /\ sent[t] = IF Written(t) THEN <<cmd[t]>> ELSE <<>>
C6_Step ==
    \A t \in Threads :
        (/\ pc[t] = "done"
         /\ pc'[t] = "write"
         /\ call[t].op \in Writers
         /\ call'[t] = call[t]) =>
            /\ cmd'[t] = sent[t][1]
            /\ response'[t] = <<>>
            /\ result'[t] = NoResult
\* C6: an accepted write transmits exactly one 13-byte frame: address, 0x06,
\* the quantity's register address, 00 01, 04, the value as 4 big-endian
\* bytes, the CRC; repeating a call repeats the frame byte for byte and starts
\* an echo check of its own.
C6_WriteFrame == [](C6_State) /\ [][C6_Step]_vars
C6_Witness ==
    /\ pc["main"] = "done"
    /\ call["main"] = [op |-> "set_power_state", arg |-> 1]
    /\ sent["main"] = << <<1, 6, 1, 14, 0, 1, 4, 0, 0, 0, 1, 95, 202>> >>
    /\ result["main"] = RetBool(TRUE)

(***************************************************************************)
(* CodecSpec: the frame codec on its own.  The byte sequence under test is *)
(* a free sequence, sealed with calculate_crc, or a frame taken from a     *)
(* driver call at the point where it is written; line noise then changes   *)
(* one byte of a frame.                                                    *)
(***************************************************************************)
SampleBytes == {0, 1, 85, 160, 255}
RawInputs == UNION {[1..n -> SampleBytes] : n \in 0..MaxLen}

CodecInit ==
    /\ address \in Addresses
    /\ DrvInit
    /\ CliIdle
    /\ buf \in RawInputs
    /\ stage = "raw"
    /\ crcOut = <<>>
    /\ ChanIdle

\* s + calculate_crc(s)
Seal ==
    /\ stage = "raw"
    /\ pc["main"] = "idle"
    /\ crcOut' = calculate_crc(buf)
    /\ buf' = buf \o calculate_crc(buf)
    /\ stage' = "sealed"

\* calculate_crc over a sequence that already ends with its CRC.
Recompute ==
    /\ stage \in {"sealed", "frame"}
    /\ crcOut' = calculate_crc(buf)
    /\ stage' = "rechecked"
    /\ UNCHANGED buf

\* The frame a driver call is about to write, as it goes on the wire.
Tap ==
    /\ stage = "raw"
    /\ buf = <<>>
    /\ pc["main"] = "write"
    /\ buf' = cmd["main"]
    /\ stage' = "frame"
    /\ UNCHANGED crcOut

\* One byte of the frame arrives changed.
Corrupt ==
    /\ stage = "frame"
    /\ \E i \in 1..Len(buf) : \E v \in (0..255) \ {buf[i]} :
          buf' = [buf EXCEPT ![i] = v]
    /\ stage' = "corrupt"
    /\ UNCHANGED crcOut

CodecNext ==
    \/ buf = <<>> /\ stage = "raw" /\ Invoke("main") /\ UNCHANGED <<cliVars, codecVars, chanVars>>
    \/ Seal /\ UNCHANGED <<drvVars, cliVars, chanVars>>
    \/ Recompute /\ UNCHANGED <<drvVars, cliVars, chanVars>>
    \/ Tap /\ UNCHANGED <<drvVars, cliVars, chanVars>>
    \/ Corrupt /\ UNCHANGED <<drvVars, cliVars, chanVars>>

CodecSpec == CodecInit /\ [][CodecNext]_vars

(***************************************************************************)
(* Claims about the codec.  RefCrc is CRC-16 with seed 0xFFFF and the      *)
(* reflected polynomial 0xA001, stated bit by bit (a shift register fed    *)
(* the data bits, least significant first).                                *)
(***************************************************************************)
Flip(x, w) == IF (x \div w) % 2 = 1 THEN x - w ELSE x + w
RefFeed(reg, bit) ==
    IF (reg + bit) % 2 = 1
    THEN Flip(Flip(Flip(reg \div 2, 32768), 8192), 1)
    ELSE reg \div 2
RECURSIVE RefBits(_, _, _)
RefBits(reg, byte, n) ==
    IF n = 0 THEN reg
    ELSE IF reg >= 0 THEN RefBits(RefFeed(reg, byte % 2), byte \div 2, n - 1)
    ELSE reg
RECURSIVE RefCrc(_, _)
RefCrc(reg, data) ==
    IF data = <<>> THEN reg ELSE RefCrc(RefBits(reg, Head(data), 8), Tail(data))

\* The last two bytes are the CRC of the bytes before them, low byte first.
WellFormed(f) ==
    /\ Len(f) >= 3
    /\ LET crc == RefCrc(65535, SubSeq(f, 1, Len(f) - 2))
       IN  f[Len(f) - 1] = crc % 256 /\ f[Len(f)] = crc \div 256

\* C7: every frame the driver puts on the wire ends with the CRC-16 of its
\* preceding bytes, low byte first, and no frame with one byte changed passes
\* that check.
C7_FramesWellFormed ==
    /\ stage = "frame" => WellFormed(buf)
    /\ stage = "corrupt" => ~WellFormed(buf)
C7_Witness ==
    /\ stage = "corrupt"
    /\ Len(buf) = 13
    /\ buf[5] # cmd["main"][5]

\* C8 as stated: the CRC recomputed over s + crc(s) equals the two appended
\* bytes.
C8_AsStated ==
    stage = "rechecked" =>
        crcOut = SubSeq(buf, Len(buf) - 1, Len(buf))
\* C8, amended: the CRC recomputed over s + crc(s) is 0x0000, both bytes zero.
C8_ZeroResidue ==
    /\ stage = "sealed" => (crcOut = SubSeq(buf, Len(buf) - 1, Len(buf)))
    /\ stage = "rechecked" => crcOut = <<0, 0>>
C8_Witness ==
    /\ stage = "rechecked"
    /\ Len(buf) = 5
    /\ SubSeq(buf, 4, 5) # <<0, 0>>
    /\ crcOut = <<0, 0>>

(***************************************************************************)
(* cli_control.py.  The user presses keys; input() takes the keys up to    *)
(* the next Enter as one line.  The menu choices and values of the model   *)
(* are the lines that can be made of Keys: choice 1 (set_mode, with its    *)
(* value prompt), choice 8 (start monitoring), and lines that start no     *)
(* load call.                                                              *)
(***************************************************************************)
Keys == {"1", "8", "q", "ENTER"}
DigitOf == [c \in {"1", "8"} |-> IF c = "1" THEN 1 ELSE 8]

HasLine == \E i \in 1..Len(stdin) : stdin[i] = "ENTER"
FirstEnter == CHOOSE i \in 1..Len(stdin) :
                  stdin[i] = "ENTER" /\ \A j \in 1..(i - 1) : stdin[j] # "ENTER"
\* What input() returns, and what it leaves unread.
InputLine == SubSeq(stdin, 1, FirstEnter - 1)
InputRest == SubSeq(stdin, FirstEnter + 1, Len(stdin))

RECURSIVE ParseDigits(_)
ParseDigits(line) ==
    IF line = <<>> THEN 0
    ELSE 10 * ParseDigits(SubSeq(line, 1, Len(line) - 1)) + DigitOf[line[Len(line)]]
\* int(line) / float(line) raise ValueError unless the line is a number.
IsNumber(line) == line # <<>> /\ \A i \in 1..Len(line) : line[i] \in DOMAIN DigitOf

\* The replies of the device under the CLI specification: the echo, or the bank
\* of common registers; each reply arrives in one piece.
CliReplies(f) ==
    IF f[2] = 6 THEN {f}
    ELSE {ReadReply(f[1], 3, 8, <<3, 0, 0, 19, 136, 0, 3, 232>>)}

\* The method call of thread t is over and its locals are gone.
Forget(t) ==
    /\ pc' = [pc EXCEPT ![t] = "idle"]
    /\ call' = [call EXCEPT ![t] = NoCall]
    /\ cmd' = [cmd EXCEPT ![t] = <<>>]
    /\ cleared' = [cleared EXCEPT ![t] = FALSE]
    /\ sent' = [sent EXCEPT ![t] = <<>>]
    /\ response' = [response EXCEPT ![t] = <<>>]
    /\ result' = [result EXCEPT ![t] = NoResult]
    /\ UNCHANGED <<address, rx, pending>>

\* The user presses a key.
KeyPress ==
    /\ mpc \notin {"off", "exited"}
    /\ Len(stdin) < MaxKeys
    /\ \E k \in Keys :
          /\ stdin' = Append(stdin, k)
          /\ qPressed' = (qPressed \/ k = "q")
    /\ UNCHANGED <<platform, mpc, stop_event, monitor, ps_off, nreq, drvVars>>

\* main(): `while not stop_event.is_set()`, then the Windows-only kbhit test.
main_loop ==
    /\ mpc = "loop"
    /\ IF stop_event
       THEN /\ mpc' = "finally"
            /\ UNCHANGED <<stdin, drvVars>>
       ELSE IF platform = "win" /\ stdin # <<>>
       THEN /\ stdin' = Tail(stdin)
            /\ IF Head(stdin) = "q"
               THEN /\ pending = <<>>
                    /\ set_power_state("main", 0)
                    /\ mpc' = "break"
               ELSE /\ mpc' = "prompt"
                    /\ UNCHANGED drvVars
       ELSE /\ mpc' = "prompt"
            /\ UNCHANGED <<stdin, drvVars>>
    /\ UNCHANGED <<platform, stop_event, monitor, qPressed, ps_off, nreq>>

\* choice = input("Select an option: ").strip() and the if/elif chain.
main_menu ==
    /\ mpc = "prompt"
    /\ HasLine
    /\ stdin' = InputRest
    /\ LET choice == InputLine
       IN  CASE choice = <<"1">> ->
                  /\ mpc' = "ask_mode"
                  /\ UNCHANGED <<stop_event, monitor, nreq, drvVars>>
             [] choice = <<"8">> ->
                  /\ monitor' = IF monitor \in {"check", "call", "sleep"}
                                THEN monitor ELSE "check"
                  /\ mpc' = "loop"
                  /\ UNCHANGED <<stop_event, nreq, drvVars>>
             [] OTHER ->
                  /\ mpc' = "loop"
                  /\ UNCHANGED <<stop_event, monitor, nreq, drvVars>>
    /\ UNCHANGED <<platform, qPressed, ps_off>>

\* mode = int(input(...)); load.set_mode(mode).  A ValueError of int() or of
\* set_mode leaves the loop through the finally block.
main_ask_mode ==
    /\ mpc = "ask_mode"
    /\ HasLine
    /\ stdin' = InputRest
    /\ IF IsNumber(InputLine)
       THEN /\ pending = <<>>
            /\ nreq < MaxRequests
            /\ nreq' = nreq + 1
            /\ set_mode("main", ParseDigits(InputLine))
            /\ mpc' = IF pc'["main"] = "raised" THEN "finally" ELSE "call"
       ELSE /\ mpc' = "finally"
            /\ UNCHANGED <<nreq, drvVars>>
    /\ UNCHANGED <<platform, stop_event, monitor, qPressed, ps_off>>

\* The load call of the menu branch has returned: time.sleep(0.1), loop again.
\* After the kbhit branch: break.
main_returned ==
    /\ mpc \in {"call", "break"}
    /\ pc["main"] = "done"
    /\ mpc' = IF mpc = "break" THEN "finally" ELSE "loop"
    /\ Forget("main")
    /\ UNCHANGED <<platform, stop_event, monitor, stdin, qPressed, ps_off, nreq>>

\* finally: stop_event.set(); load.set_power_state(False)
main_finally ==
    /\ mpc = "finally"
    /\ pending = <<>>
    /\ stop_event' = TRUE
    /\ set_power_state("main", 0)
    /\ mpc' = "final_call"
    /\ UNCHANGED <<platform, monitor, stdin, qPressed, ps_off, nreq>>

\* finally, continued: ps.output_off(); print("Goodbye."); the process ends
\* and takes the daemon thread with it.
main_exit ==
    /\ mpc = "final_call"
    /\ pc["main"] = "done"
    /\ ps_off' = ps_off + 1
    /\ mpc' = "exited"
    /\ UNCHANGED <<platform, stop_event, monitor, stdin, qPressed, nreq, drvVars>>

\* monitor_load: `while not stop_event.is_set(): data = load.get_measurements()`
monitor_poll ==
    /\ monitor = "check"
    /\ mpc # "exited"
    /\ IF stop_event
       THEN /\ monitor' = "ended"
            /\ UNCHANGED <<nreq, drvVars>>
       ELSE /\ pending = <<>>
            /\ nreq < MaxRequests
            /\ nreq' = nreq + 1
            /\ get_measurements("monitor")
            /\ monitor' = "call"
    /\ UNCHANGED <<platform, mpc, stop_event, stdin, qPressed, ps_off>>

\* monitor_load: the measurement is printed; an exception ends the thread.
monitor_print ==
    /\ monitor = "call"
    /\ mpc # "exited"
    /\ pc["monitor"] = "done"
    /\ monitor' = IF result["monitor"].kind \in {"snapshot", "None"} THEN "sleep" ELSE "ended"
    /\ Forget("monitor")
    /\ UNCHANGED <<platform, mpc, stop_event, stdin, qPressed, ps_off, nreq>>

\* monitor_load: time.sleep(1)
monitor_sleep ==
    /\ monitor = "sleep"
    /\ mpc # "exited"
    /\ monitor' = "check"
    /\ UNCHANGED <<platform, mpc, stop_event, stdin, qPressed, ps_off, nreq, drvVars>>

\* emergency_watchdog(load, stop_event): on the key 'q', set_power_state(False)
\* and stop_event.set().  main() starts no thread with this target, so the
\* action is part of no next-state relation.
emergency_watchdog ==
    /\ ~stop_event
    /\ stdin # <<>>
    /\ stdin' = Tail(stdin)
    /\ IF Head(stdin) = "q"
       THEN /\ set_power_state("watchdog", 0)
            /\ stop_event' = TRUE
       ELSE UNCHANGED <<stop_event, drvVars>>
    /\ UNCHANGED <<platform, mpc, monitor, qPressed, ps_off, nreq>>

\* A send_command step of a CLI thread; the process has not ended.
CliSend(t) ==
    /\ mpc # "exited"
    /\ \/ SerWrite(t, CliReplies(cmd[t]))
       \/ settle(t)
       \/ ser_read(t)
       \/ send_return(t)
    /\ UNCHANGED <<cliVars, codecVars, chanVars>>

CliDevice == Deliver({Len(pending)}) /\ UNCHANGED <<cliVars, codecVars, chanVars>>

CliKey == KeyPress /\ UNCHANGED <<codecVars, chanVars>>

MainStep ==
    /\ \/ main_loop
       \/ main_menu
       \/ main_ask_mode
       \/ main_returned
       \/ main_finally
       \/ main_exit
    /\ UNCHANGED <<codecVars, chanVars>>

MonitorStep ==
    /\ \/ monitor_poll
       \/ monitor_print
       \/ monitor_sleep
    /\ UNCHANGED <<codecVars, chanVars>>

CliInit ==
    /\ address = 1
    /\ DrvInit
    /\ platform \in {"posix", "win"}
    /\ mpc = "loop"
    /\ stop_event = FALSE
    /\ monitor = "none"
    /\ stdin = <<>>
    /\ qPressed = FALSE
    /\ ps_off = 0
    /\ nreq = 0
    /\ CodecIdle
    /\ ChanIdle

CliNext ==
    \/ CliKey
    \/ MainStep
    \/ MonitorStep
    \/ CliSend("main")
    \/ CliSend("monitor")
    \/ CliDevice

\* The threads, the driver and the device keep running; the user owes no key.
CliSpec ==
    /\ CliInit
    /\ [][CliNext]_vars
    /\ WF_vars(MainStep)
    /\ WF_vars(MonitorStep)
    /\ WF_vars(CliSend("main"))
    /\ WF_vars(CliSend("monitor"))
    /\ WF_vars(CliDevice)

(***************************************************************************)
(* Claims about the CLI, checked under CliSpec.                            *)
(***************************************************************************)
\* The thread has cleared the input buffer for a request that has not
\* returned yet.
InFlight(t) == pc[t] \in {"write", "settle", "poll"}

\* C9: at most one request is in flight on the load's channel at any moment.
C9_OneInFlight == Cardinality({t \in Threads : InFlight(t)}) <= 1

PowerOffSent ==
    \E t \in Threads :
        /\ call[t] = [op |-> "set_power_state", arg |-> 0]
        /\ Written(t)
\* C10: once 'q' has been pressed, set_power_state(False) is eventually sent
\* and the stop event set.
C10_QuitOnQ == qPressed ~> (stop_event /\ PowerOffSent)

(***************************************************************************)
(* Claims about the driver, continued; checked under Spec.                 *)
(***************************************************************************)
\* C11: a read reply whose last two bytes are not the CRC-16 of the bytes
\* before them is treated as no reply: get_measurements returns None for it,
\* never a snapshot and never an exception.
C11_BadCrcIsNoReply ==
    \A t \in Threads :
        (/\ pc[t] = "done"
         /\ call[t].op = "get_measurements"
         /\ ~WellFormed(response[t])) =>
            result[t] = RetNone

(***************************************************************************)
(* ChanSpec: send_command on a channel that is not quiet.  One thread      *)
(* calls the driver again and again without waiting for the device: bytes  *)
(* of earlier replies may sit in the input buffer or still be on their way *)
(* when a request starts.  The history variables record what the clear     *)
(* discarded, what arrived after it, and what was in the buffer when the   *)
(* frame was written.                                                      *)
(***************************************************************************)
\* The device answers with the echo or the common register bank, or not at
\* all.
ChanReplies(f) == {<<>>} \cup CliReplies(f)

\* A driver call up to and including reset_input_buffer().
ChanCall ==
    /\ Len(pending) <= MaxLate
    /\ \/ \E on \in OnInputs : set_power_state("main", on)
       \/ get_measurements("main")
    /\ dropped' = rx
    /\ arrived' = <<>>
    /\ early' = <<>>

\* self.ser.write(cmd)
ChanWrite ==
    /\ SerWrite("main", ChanReplies(cmd["main"]))
    /\ early' = rx
    /\ UNCHANGED <<dropped, arrived>>

\* The settle delay, one pass of the read loop, or the return.
ChanStep ==
    /\ \/ settle("main")
       \/ ser_read("main")
       \/ send_return("main")
    /\ UNCHANGED chanVars

\* Bytes on their way reach the input buffer.
ChanDeliver ==
    /\ DeviceSend
    /\ arrived' = arrived \o SubSeq(rx', Len(rx) + 1, Len(rx'))
    /\ UNCHANGED <<dropped, early>>

ChanInit ==
    /\ address = 1
    /\ DrvInit
    /\ CliIdle
    /\ CodecIdle
    /\ ChanIdle

ChanNext ==
    \/ ChanCall /\ UNCHANGED <<cliVars, codecVars>>
    \/ ChanWrite /\ UNCHANGED <<cliVars, codecVars>>
    \/ ChanStep /\ UNCHANGED <<cliVars, codecVars>>
    \/ ChanDeliver /\ UNCHANGED <<cliVars, codecVars>>

ChanSpec == ChanInit /\ [][ChanNext]_vars

(***************************************************************************)
(* Claims about send_command, checked under ChanSpec.                      *)
(***************************************************************************)
IsPrefix(a, b) == Len(a) <= Len(b) /\ SubSeq(b, 1, Len(a)) = a

\* The channel steps in their order: the buffer is cleared before the write,
\* the whole frame is written once before the first read, and what has been
\* read and what waits to be read is, in order, what arrived after the clear.
C12_Order ==
    LET t == "main"
    IN  /\ pc[t] = "write" => cleared[t] /\ sent[t] = <<>> /\ response[t] = <<>>
        /\ pc[t] = "settle" => sent[t] = <<cmd[t]>> /\ response[t] = <<>>
        /\ pc[t] \in {"poll", "done"} => sent[t] = <<cmd[t]>>
        /\ pc[t] \in {"write", "settle", "poll", "done"} =>
               response[t] \o rx = arrived

\* A pass of the read loop takes all the bytes available; the return happens
\* at a check that finds none and hands back the response as read.
C12_Loop ==
    LET t == "main"
    IN  /\ (pc[t] = "poll" /\ pc'[t] = "poll" /\ response'[t] # response[t]) =>
               response'[t] = response[t] \o rx /\ rx' = <<>>
        /\ (pc[t] = "poll" /\ pc'[t] = "done") =>
               rx = <<>> /\ response'[t] = response[t]
        /\ (pc[t] = "poll" /\ rx # <<>>) => pc'[t] = "poll"

\* C12, as stated: the steps come in the order clear, write, settle, read
\* loop; no byte that was in the input buffer before the frame was written is
\* part of the returned response; the response is the in-order concatenation
\* of the bytes read after the write; nothing sent gives the empty response.
C12_AsStated ==
    LET t == "main"
    IN  /\ C12_Order
        /\ pc[t] = "done" =>
               /\ ~(early # <<>> /\ IsPrefix(early, response[t]))
               /\ arrived = <<>> => response[t] = <<>>

\* C12, amended: the steps come in that order; no byte that was in the input
\* buffer when the request cleared it is part of the returned response, which
\* is the in-order concatenation of the bytes that arrived after the clear
\* (before or after the write) and were read before the first empty check;
\* nothing arriving gives the empty response.
C12_Channel == [](C12_Order) /\ [][C12_Loop]_vars
C12_Witness ==
    /\ pc["main"] = "done"
    /\ dropped # <<>>
    /\ early # <<>>
    /\ response["main"] # <<>>
    /\ response["main"] = arrived
    /\ pending # <<>>

(***************************************************************************)
(* Claims about the unit conversion of the setters, checked under Spec.    *)
(***************************************************************************)
\* The integers nearest to value * scale for the argument of call c (two of
\* them when value * scale is exactly halfway).
Nearest(c) ==
    LET x == c.arg * ClaimScale(c.op)
        e == Encoded(c)
    IN  {v \in (e - 1)..(e + 1) :
            2 * (IF v * InputDen >= x THEN v * InputDen - x ELSE x - v * InputDen)
                <= InputDen}

\* C13: the integer a setter range-checks and writes is value * scale
\* rounded to the nearest integer: the call is rejected when that integer is
\* outside [0, max], and otherwise the frame carries it.
C13_RoundedEncoding ==
    \A t \in Threads :
        (Started(t) /\ call[t].op \in Setters) =>
            /\ pc[t] = "raised" =>
                   \E v \in Nearest(call[t]) : ~(0 <= v /\ v <= ClaimMax(call[t].op))
            /\ pc[t] # "raised" =>
                   \E v \in Nearest(call[t]) :
                       /\ 0 <= v /\ v <= ClaimMax(call[t].op)
                       /\ SubSeq(cmd[t], 8, 11) = BigEndian4(v)

====
